---- MODULE Spec2Model ----
(***************************************************************************)
(* The tutorial notebook docs/tutorials/01_gaussian_amortized.ipynb as a   *)
(* state machine: one action per statement of its code cells, run top to   *)
(* bottom.  Real numbers are fixed-point integers counted in tenths        *)
(* (1.0 is 10, 0.1 is 1, the prior box [-2, 2] is [-20, 20]).              *)
(*                                                                         *)
(* torch's global random generator is the variable gen: every draw reads   *)
(* the current state and advances it, so a run is a function of the seed.  *)
(* The calls into the sbi library (process_prior, check_sbi_inputs,        *)
(* simulate_for_sbi, NPE, build_posterior, posterior.sample, pairplot) are *)
(* modelled from the specification's description of them.                  *)
(***************************************************************************)
EXTENDS Integers, Sequences, FiniteSets, TLC

VARIABLES
    pc,                  \* the statement the notebook executes next
    gen,                 \* state of torch's global random generator
    seed,                \* the seed the generator was started from
    prior,               \* the binding `prior`
    sim_binding,         \* the binding `simulator`: "unbound" | "raw" | "wrapped"
    num_parameters,      \* returned by process_prior
    prior_returns_numpy, \* returned by process_prior
    error,               \* the exception that halted the run, or "none"
    inference,           \* the NPE object, with the simulations appended to it
    theta,               \* training parameters returned by simulate_for_sbi
    x,                   \* training simulations returned by simulate_for_sbi
    density_estimator,   \* returned by inference.train()
    posterior,           \* returned by inference.build_posterior
    theta_1, x_obs_1,    \* first ground truth and observation
    theta_2, x_obs_2,    \* second ground truth and observation
    posterior_samples_1,
    posterior_samples_2,
    plots,               \* the pairplot calls made, in order
    calls,               \* history: every simulator call (theta, gen before, output, gen after)
    sample_log,          \* history: every posterior.sample call
    steps                \* history: the library operations executed, in order

vars == <<pc, gen, seed, prior, sim_binding, num_parameters, prior_returns_numpy,
          error, inference, theta, x, density_estimator, posterior,
          theta_1, x_obs_1, theta_2, x_obs_2,
          posterior_samples_1, posterior_samples_2, plots,
          calls, sample_log, steps>>

----------------------------------------------------------------------------
(* Program constants (values in tenths).                                   *)

num_dim == 3
PriorLow == -20
PriorHigh == 20
Offset == 10
NoiseStd == 1

(* Bounds of the model.                                                    *)

\* num_simulations=2000 in the source; the model simulates this many pairs.
num_simulations == 2
\* posterior.sample((10000,), ...) in the source; the model draws this many.
num_samples == 2
\* A standard normal draw is cut to the whole values -NoiseMax .. NoiseMax.
NoiseMax == 2
\* A uniform draw on [0, 1) is one of u / UniformSteps, u in 0 .. UniformSteps-1.
UniformSteps == 4
\* The generator starts from one of the seeds 0 .. MaxSeed.
MaxSeed == 7
\* Batch sizes, calls and reseeds of the simulator harness SimSpec.
MaxBatch == 2
MaxCalls == 2

----------------------------------------------------------------------------
(* Fixed-point arithmetic and tensors.  A batch is a sequence of rows, a   *)
(* row a sequence of coordinates.                                          *)

\* The product of two values counted in tenths, counted in tenths.
FixMul(a, b) == (a * b) \div 10

Abs(a) == IF a < 0 THEN -a ELSE a

ones(d) == [i \in 1..d |-> 10]

numel(t) == IF t = <<>> THEN 0 ELSE Len(t) * Len(t[1])

----------------------------------------------------------------------------
(* torch's random generator: a state, a step, and the value a draw reads   *)
(* off the state.  A full-period congruential generator on 8 bits.         *)

GenNext(g) == (g * 5 + 3) % 256

RECURSIVE GenSkip(_, _)
GenSkip(g, k) == IF k = 0 THEN g ELSE GenSkip(GenNext(g), k - 1)

\* torch.rand: the numerator u of a uniform draw u / UniformSteps in [0, 1).
Rand(g) == ((g \div 16) + g) % UniformSteps

\* torch.randn: a standard normal draw, in tenths.
Randn(g) == ((((g \div 16) + g) % (2 * NoiseMax + 1)) - NoiseMax) * 10

\* torch.randn_like(theta): a tensor of theta's shape, one draw per element.
randn_like(t, g) ==
    [r \in 1..Len(t) |->
        [i \in 1..Len(t[r]) |-> Randn(GenSkip(g, (r - 1) * Len(t[r]) + (i - 1)))]]

----------------------------------------------------------------------------
(* Cell 2: the prior and the simulator.                                    *)

\* utils.BoxUniform(low=-2 * torch.ones(num_dim), high=2 * torch.ones(num_dim))
\* (mutant: the lower bound written as -3)
BoxUniform_low3 == [low  |-> [i \in 1..num_dim |-> FixMul(PriorLow - 10, ones(num_dim)[i])],
                    high |-> [i \in 1..num_dim |-> FixMul(PriorHigh, ones(num_dim)[i])]]

BoxUniform == [low  |-> [i \in 1..num_dim |-> FixMul(PriorLow, ones(num_dim)[i])],
               high |-> [i \in 1..num_dim |-> FixMul(PriorHigh, ones(num_dim)[i])]]

NoPrior == [low |-> <<>>, high |-> <<>>]

\* prior.sample((n,)): n rows, each coordinate low + rand * (high - low).
PriorSample(p, n, g) ==
    LET d == Len(p.low) IN
    [r \in 1..n |->
        [i \in 1..d |->
            p.low[i] + (Rand(GenSkip(g, (r - 1) * d + (i - 1))) * (p.high[i] - p.low[i]))
                           \div UniformSteps]]

\* def simulator(theta): return theta + 1.0 + torch.randn_like(theta) * 0.1
\* (mutants: the last row of the batch lost; the offset forgotten; the noise
\* not scaled; the noise drawn from a source the seed does not control)
simulator_drop_row(t, g) ==
    [r \in 1..(Len(t) - 1) |->
        [i \in 1..Len(t[r]) |-> t[r][i] + Offset + FixMul(randn_like(t, g)[r][i], NoiseStd)]]

simulator_no_offset(t, g) ==
    [r \in 1..Len(t) |->
        [i \in 1..Len(t[r]) |-> t[r][i] + FixMul(randn_like(t, g)[r][i], NoiseStd)]]

simulator_unscaled(t, g) ==
    [r \in 1..Len(t) |->
        [i \in 1..Len(t[r]) |-> t[r][i] + Offset + randn_like(t, g)[r][i]]]

simulator_unseeded(t, g) ==
    [r \in 1..Len(t) |->
        [i \in 1..Len(t[r]) |->
            t[r][i] + Offset + FixMul(randn_like(t, g + Len(calls))[r][i], NoiseStd)]]

simulator(t, g) ==
    [r \in 1..Len(t) |->
        [i \in 1..Len(t[r]) |-> t[r][i] + Offset + FixMul(randn_like(t, g)[r][i], NoiseStd)]]

\* One call of the bound simulator: its output, the generator after it and
\* the history record of the call.
\* (mutant: the noise comes from a generator of the call's own, so the
\* global generator is where it was)
SimCall_no_advance(t, g) ==
    LET out == simulator(t, g) IN
    [x |-> out, gen |-> g,
     rec |-> [theta |-> t, gen |-> g, noise |-> randn_like(t, g), x |-> out,
              gen_after |-> g]]

SimCall(t, g) ==
    LET out == simulator(t, g) IN
    [x |-> out, gen |-> GenSkip(g, numel(t)),
     rec |-> [theta |-> t, gen |-> g, noise |-> randn_like(t, g), x |-> out,
              gen_after |-> GenSkip(g, numel(t))]]

----------------------------------------------------------------------------
(* The sbi library, as the specification describes it.                     *)

NoInference == [created |-> FALSE, prior |-> NoPrior, theta |-> <<>>, x |-> <<>>,
                rounds |-> 0, trained |-> 0]

NoEstimator == [fitted |-> FALSE, theta |-> <<>>, x |-> <<>>]

NoPosterior == [built |-> FALSE, estimator |-> NoEstimator, prior |-> NoPrior,
                default_x |-> <<>>]

\* How often the operation `name` has been executed.
Count(name) == Cardinality({k \in 1..Len(steps) : steps[k] = name})

\* check_sbi_inputs(simulator, prior): one parameter set is drawn from the
\* prior and simulated; the simulation must have the batch size and, here,
\* the dimensionality the prior declares.
CheckTheta(p, g) == PriorSample(p, 1, g)

CheckShapesAgree(p, g) ==
    LET t == CheckTheta(p, g)
        s == SimCall(t, GenSkip(g, numel(t))).x
    IN  /\ Len(s) = Len(t)
        /\ \A r \in 1..Len(s) : Len(s[r]) = Len(p.low)

\* simulate_for_sbi(simulator, proposal, num_simulations): the parameters
\* are drawn from the proposal in one batch, then each row is simulated by
\* its own simulator call (simulation_batch_size = 1).
SimulateTheta(p, n, g) == PriorSample(p, n, g)

SimulateRowCall(p, n, g, r) ==
    LET t == SimulateTheta(p, n, g)
        g1 == GenSkip(g, numel(t))
    IN  SimCall(<<t[r]>>, GenSkip(g1, (r - 1) * Len(t[r])))

SimulateX(p, n, g) == [r \in 1..n |-> SimulateRowCall(p, n, g, r).x[1]]

SimulateCalls(p, n, g) == [r \in 1..n |-> SimulateRowCall(p, n, g, r).rec]

SimulateGen(p, n, g) == GenSkip(g, 2 * n * Len(p.low))

\* inference.train(): the estimator fitted to the simulations appended so far.
\* Training shuffles the pairs: one draw per pair.
TrainEstimator(inf) == [fitted |-> TRUE, theta |-> inf.theta, x |-> inf.x]

TrainGen(inf, g) == GenSkip(g, Len(inf.theta))

\* inference.build_posterior(density_estimator)
BuildPosterior(inf, de) ==
    [built |-> TRUE, estimator |-> de, prior |-> inf.prior, default_x |-> <<>>]

\* posterior.sample((n,), x=x_o): n parameter vectors conditioned on x_o
\* alone.  The fitted estimator stands for the relation between theta and x
\* it was trained on (the per-coordinate differences theta - x of its
\* training pairs); a draw picks one of them and applies it to x_o.
PosteriorSample(post, n, xo, g) ==
    LET de == post.estimator
        d == Len(xo[1])
        m == Len(de.theta)
    IN  [k \in 1..n |->
            [i \in 1..d |->
                LET s == GenSkip(g, (k - 1) * d + (i - 1))
                    j == (((s \div 16) + s) % m) + 1
                IN  xo[1][i] + (de.theta[j][i] - de.x[j][i])]]

PosteriorSampleGen(n, xo, g) == GenSkip(g, n * Len(xo[1]))

\* What the posterior answers for x_o: per coordinate, the values a draw can take.
PosteriorSupport(post, xo) ==
    LET de == post.estimator IN
    [i \in 1..Len(xo[1]) |->
        {xo[1][i] + (de.theta[j][i] - de.x[j][i]) : j \in 1..Len(de.theta)}]

SampleRecord(post, n, xo, out) ==
    [posterior |-> post, x |-> xo, n |-> n, samples |-> out, gen |-> gen,
     trained |-> Count("train"), simulated |-> Count("simulate_for_sbi")]

----------------------------------------------------------------------------
(* The notebook: the state before cell 2 runs, then one action per         *)
(* statement.  An exception ends the run (pc = "halted"): no later         *)
(* statement is executed.                                                  *)

Init ==
    /\ pc = "define_prior"
    /\ gen \in 0..MaxSeed
    /\ seed = gen
    /\ prior = NoPrior
    /\ sim_binding = "unbound"
    /\ num_parameters = 0
    /\ prior_returns_numpy = FALSE
    /\ error = "none"
    /\ inference = NoInference
    /\ theta = <<>>
    /\ x = <<>>
    /\ density_estimator = NoEstimator
    /\ posterior = NoPosterior
    /\ theta_1 = <<>>
    /\ x_obs_1 = <<>>
    /\ theta_2 = <<>>
    /\ x_obs_2 = <<>>
    /\ posterior_samples_1 = <<>>
    /\ posterior_samples_2 = <<>>
    /\ plots = <<>>
    /\ calls = <<>>
    /\ sample_log = <<>>
    /\ steps = <<>>

setupVars == <<prior, sim_binding, num_parameters, prior_returns_numpy>>
trainVars == <<inference, theta, x, density_estimator, posterior>>
obsVars == <<theta_1, x_obs_1, theta_2, x_obs_2>>
resultVars == <<posterior_samples_1, posterior_samples_2, plots>>

\* prior = utils.BoxUniform(low=-2 * torch.ones(num_dim), high=2 * torch.ones(num_dim))
DefinePrior ==
    /\ pc = "define_prior"
    /\ prior' = BoxUniform
    /\ pc' = "define_simulator"
    /\ UNCHANGED <<gen, seed, sim_binding, num_parameters, prior_returns_numpy, error,
                   trainVars, obsVars, resultVars, calls, sample_log, steps>>

\* def simulator(theta): ...
DefineSimulator ==
    /\ pc = "define_simulator"
    /\ sim_binding' = "raw"
    /\ pc' = "process_prior"
    /\ UNCHANGED <<gen, seed, prior, num_parameters, prior_returns_numpy, error,
                   trainVars, obsVars, resultVars, calls, sample_log, steps>>

\* prior, num_parameters, prior_returns_numpy = process_prior(prior)
ProcessPrior ==
    /\ pc = "process_prior"
    /\ prior' = prior
    /\ num_parameters' = Len(prior.low)
    /\ prior_returns_numpy' = FALSE
    /\ steps' = Append(steps, "process_prior")
    /\ pc' = "process_simulator"
    /\ UNCHANGED <<gen, seed, sim_binding, error,
                   trainVars, obsVars, resultVars, calls, sample_log>>

\* simulator = process_simulator(simulator, prior, prior_returns_numpy)
\* (mutant: the consistency check is left out)
ProcessSimulator_skips_check ==
    /\ pc = "process_simulator"
    /\ sim_binding' = "wrapped"
    /\ steps' = Append(steps, "process_simulator")
    /\ pc' = "NPE"
    /\ UNCHANGED <<gen, seed, prior, num_parameters, prior_returns_numpy, error,
                   trainVars, obsVars, resultVars, calls, sample_log>>

ProcessSimulator ==
    /\ pc = "process_simulator"
    /\ sim_binding' = "wrapped"
    /\ steps' = Append(steps, "process_simulator")
    /\ pc' = "check_sbi_inputs"
    /\ UNCHANGED <<gen, seed, prior, num_parameters, prior_returns_numpy, error,
                   trainVars, obsVars, resultVars, calls, sample_log>>

\* check_sbi_inputs(simulator, prior): passes only if the library accepts the
\* pair and the shapes agree; otherwise it raises and the run halts.
\* (mutant: the exception is caught and the run goes on)
CheckSbiInputs_swallowed ==
    /\ pc = "check_sbi_inputs"
    /\ \E accepted \in BOOLEAN :
         /\ error' = IF accepted /\ CheckShapesAgree(prior, gen)
                     THEN error ELSE "AssertionError"
         /\ pc' = "NPE"
    /\ calls' = Append(calls, SimCall(CheckTheta(prior, gen),
                                      GenSkip(gen, numel(CheckTheta(prior, gen)))).rec)
    /\ gen' = GenSkip(gen, 2 * numel(CheckTheta(prior, gen)))
    /\ steps' = Append(steps, "check_sbi_inputs")
    /\ UNCHANGED <<seed, setupVars, trainVars, obsVars, resultVars, sample_log>>

CheckSbiInputs ==
    /\ pc = "check_sbi_inputs"
    /\ \E accepted \in BOOLEAN :
         IF accepted /\ CheckShapesAgree(prior, gen)
         THEN /\ pc' = "NPE"
              /\ error' = error
         ELSE /\ pc' = "halted"
              /\ error' = "AssertionError"
    /\ calls' = Append(calls, SimCall(CheckTheta(prior, gen),
                                      GenSkip(gen, numel(CheckTheta(prior, gen)))).rec)
    /\ gen' = GenSkip(gen, 2 * numel(CheckTheta(prior, gen)))
    /\ steps' = Append(steps, "check_sbi_inputs")
    /\ UNCHANGED <<seed, setupVars, trainVars, obsVars, resultVars, sample_log>>

\* inference = NPE(prior=prior)
CreateInference ==
    /\ pc = "NPE"
    /\ inference' = [NoInference EXCEPT !.created = TRUE, !.prior = prior]
    /\ steps' = Append(steps, "NPE")
    /\ pc' = "simulate_for_sbi"
    /\ UNCHANGED <<gen, seed, setupVars, error, theta, x, density_estimator, posterior,
                   obsVars, resultVars, calls, sample_log>>

\* theta, x = simulate_for_sbi(simulator, proposal=prior, num_simulations=2000)
\* (mutant: the two results unpacked in the wrong order, x, theta = ...)
SimulateForSbi_swapped ==
    /\ pc = "simulate_for_sbi"
    /\ x' = SimulateTheta(prior, num_simulations, gen)
    /\ theta' = SimulateX(prior, num_simulations, gen)
    /\ calls' = calls \o SimulateCalls(prior, num_simulations, gen)
    /\ gen' = SimulateGen(prior, num_simulations, gen)
    /\ steps' = Append(steps, "simulate_for_sbi")
    /\ pc' = "append_simulations"
    /\ UNCHANGED <<seed, setupVars, error, inference, density_estimator, posterior,
                   obsVars, resultVars, sample_log>>

SimulateForSbi ==
    /\ pc = "simulate_for_sbi"
    /\ theta' = SimulateTheta(prior, num_simulations, gen)
    /\ x' = SimulateX(prior, num_simulations, gen)
    /\ calls' = calls \o SimulateCalls(prior, num_simulations, gen)
    /\ gen' = SimulateGen(prior, num_simulations, gen)
    /\ steps' = Append(steps, "simulate_for_sbi")
    /\ pc' = "append_simulations"
    /\ UNCHANGED <<seed, setupVars, error, inference, density_estimator, posterior,
                   obsVars, resultVars, sample_log>>

\* inference = inference.append_simulations(theta, x)
AppendSimulations ==
    /\ pc = "append_simulations"
    /\ inference' = [inference EXCEPT !.theta = @ \o theta, !.x = @ \o x,
                                      !.rounds = @ + 1]
    /\ steps' = Append(steps, "append_simulations")
    /\ pc' = "train"
    /\ UNCHANGED <<gen, seed, setupVars, error, theta, x, density_estimator, posterior,
                   obsVars, resultVars, calls, sample_log>>

\* density_estimator = inference.train()
\* (mutant: training is cancelled and the run stops there)
Train_cancelled ==
    /\ pc = "train"
    /\ steps' = Append(steps, "train")
    /\ pc' = "cancelled"
    /\ UNCHANGED <<gen, seed, setupVars, error, trainVars,
                   obsVars, resultVars, calls, sample_log>>

Train ==
    /\ pc = "train"
    /\ density_estimator' = TrainEstimator(inference)
    /\ inference' = [inference EXCEPT !.trained = @ + 1]
    /\ gen' = TrainGen(inference, gen)
    /\ steps' = Append(steps, "train")
    /\ pc' = "build_posterior"
    /\ UNCHANGED <<seed, setupVars, error, theta, x, posterior,
                   obsVars, resultVars, calls, sample_log>>

\* posterior = inference.build_posterior(density_estimator)
BuildPosteriorStep ==
    /\ pc = "build_posterior"
    /\ posterior' = BuildPosterior(inference, density_estimator)
    /\ steps' = Append(steps, "build_posterior")
    /\ pc' = "theta_1"
    /\ UNCHANGED <<gen, seed, setupVars, error, inference, theta, x, density_estimator,
                   obsVars, resultVars, calls, sample_log>>

\* theta_1 = prior.sample((1,))
\* (mutant: cell 4 defines a prior of its own for the test observations)
SampleTheta1_rebinds_prior ==
    /\ pc = "theta_1"
    /\ prior' = [prior EXCEPT !.low = [i \in 1..num_dim |-> 0]]
    /\ theta_1' = PriorSample([prior EXCEPT !.low = [i \in 1..num_dim |-> 0]], 1, gen)
    /\ gen' = GenSkip(gen, Len(prior.low))
    /\ steps' = Append(steps, "prior.sample")
    /\ pc' = "x_obs_1"
    /\ UNCHANGED <<seed, sim_binding, num_parameters, prior_returns_numpy, error,
                   trainVars, x_obs_1, theta_2, x_obs_2, resultVars, calls, sample_log>>

SampleTheta1 ==
    /\ pc = "theta_1"
    /\ theta_1' = PriorSample(prior, 1, gen)
    /\ gen' = GenSkip(gen, Len(prior.low))
    /\ steps' = Append(steps, "prior.sample")
    /\ pc' = "x_obs_1"
    /\ UNCHANGED <<seed, setupVars, error, trainVars, x_obs_1, theta_2, x_obs_2,
                   resultVars, calls, sample_log>>

\* x_obs_1 = simulator(theta_1)
\* (mutant: the observation is also written to x, the training simulations)
SimulateObs1_overwrites_x ==
    /\ pc = "x_obs_1"
    /\ x_obs_1' = SimCall(theta_1, gen).x
    /\ x' = SimCall(theta_1, gen).x
    /\ gen' = SimCall(theta_1, gen).gen
    /\ calls' = Append(calls, SimCall(theta_1, gen).rec)
    /\ steps' = Append(steps, "simulator")
    /\ pc' = "theta_2"
    /\ UNCHANGED <<seed, setupVars, error, inference, theta, density_estimator, posterior,
                   theta_1, theta_2, x_obs_2, resultVars, sample_log>>

\* (mutant: the simulator adds in place, theta += 1.0 + noise, so the
\* argument holds the output after the call)
SimulateObs1_in_place ==
    /\ pc = "x_obs_1"
    /\ x_obs_1' = SimCall(theta_1, gen).x
    /\ theta_1' = SimCall(theta_1, gen).x
    /\ gen' = SimCall(theta_1, gen).gen
    /\ calls' = Append(calls, SimCall(theta_1, gen).rec)
    /\ steps' = Append(steps, "simulator")
    /\ pc' = "theta_2"
    /\ UNCHANGED <<seed, setupVars, error, trainVars, theta_2, x_obs_2,
                   resultVars, sample_log>>

SimulateObs1 ==
    /\ pc = "x_obs_1"
    /\ x_obs_1' = SimCall(theta_1, gen).x
    /\ gen' = SimCall(theta_1, gen).gen
    /\ calls' = Append(calls, SimCall(theta_1, gen).rec)
    /\ steps' = Append(steps, "simulator")
    /\ pc' = "theta_2"
    /\ UNCHANGED <<seed, setupVars, error, trainVars, theta_1, theta_2, x_obs_2,
                   resultVars, sample_log>>

\* theta_2 = prior.sample((1,))
SampleTheta2 ==
    /\ pc = "theta_2"
    /\ theta_2' = PriorSample(prior, 1, gen)
    /\ gen' = GenSkip(gen, Len(prior.low))
    /\ steps' = Append(steps, "prior.sample")
    /\ pc' = "x_obs_2"
    /\ UNCHANGED <<seed, setupVars, error, trainVars, theta_1, x_obs_1, x_obs_2,
                   resultVars, calls, sample_log>>

\* x_obs_2 = simulator(theta_2)
SimulateObs2 ==
    /\ pc = "x_obs_2"
    /\ x_obs_2' = SimCall(theta_2, gen).x
    /\ gen' = SimCall(theta_2, gen).gen
    /\ calls' = Append(calls, SimCall(theta_2, gen).rec)
    /\ steps' = Append(steps, "simulator")
    /\ pc' = "sample_1"
    /\ UNCHANGED <<seed, setupVars, error, trainVars, theta_1, x_obs_1, theta_2,
                   resultVars, sample_log>>

\* posterior_samples_1 = posterior.sample((10000,), x=x_obs_1)
\* (mutant: the observation is stored in the posterior as its default x)
PosteriorSample1_sets_default_x ==
    /\ pc = "sample_1"
    /\ posterior_samples_1' = PosteriorSample(posterior, num_samples, x_obs_1, gen)
    /\ posterior' = [posterior EXCEPT !.default_x = x_obs_1]
    /\ gen' = PosteriorSampleGen(num_samples, x_obs_1, gen)
    /\ sample_log' = Append(sample_log,
           SampleRecord(posterior, num_samples, x_obs_1,
                        PosteriorSample(posterior, num_samples, x_obs_1, gen)))
    /\ steps' = Append(steps, "posterior.sample")
    /\ pc' = "pairplot_1"
    /\ UNCHANGED <<seed, setupVars, error, inference, theta, x, density_estimator, obsVars,
                   posterior_samples_2, plots, calls>>

PosteriorSample1 ==
    /\ pc = "sample_1"
    /\ posterior_samples_1' = PosteriorSample(posterior, num_samples, x_obs_1, gen)
    /\ gen' = PosteriorSampleGen(num_samples, x_obs_1, gen)
    /\ sample_log' = Append(sample_log,
           SampleRecord(posterior, num_samples, x_obs_1,
                        PosteriorSample(posterior, num_samples, x_obs_1, gen)))
    /\ steps' = Append(steps, "posterior.sample")
    /\ pc' = "pairplot_1"
    /\ UNCHANGED <<seed, setupVars, error, trainVars, obsVars,
                   posterior_samples_2, plots, calls>>

\* _ = analysis.pairplot(posterior_samples_1, ..., points=theta_1)
Pairplot1 ==
    /\ pc = "pairplot_1"
    /\ plots' = Append(plots, [samples |-> posterior_samples_1, points |-> theta_1])
    /\ steps' = Append(steps, "pairplot")
    /\ pc' = "sample_2"
    /\ UNCHANGED <<gen, seed, setupVars, error, trainVars, obsVars,
                   posterior_samples_1, posterior_samples_2, calls, sample_log>>

\* posterior_samples_2 = posterior.sample((10000,), x=x_obs_2)
\* (mutant: inference is run again for the second observation)
PosteriorSample2_retrained ==
    /\ pc = "sample_2"
    /\ density_estimator' = TrainEstimator(inference)
    /\ inference' = [inference EXCEPT !.trained = @ + 1]
    /\ posterior' = BuildPosterior(inference, TrainEstimator(inference))
    /\ posterior_samples_2' =
           PosteriorSample(BuildPosterior(inference, TrainEstimator(inference)),
                           num_samples, x_obs_2, TrainGen(inference, gen))
    /\ gen' = PosteriorSampleGen(num_samples, x_obs_2, TrainGen(inference, gen))
    /\ sample_log' = Append(sample_log,
           [SampleRecord(BuildPosterior(inference, TrainEstimator(inference)),
                         num_samples, x_obs_2,
                         PosteriorSample(BuildPosterior(inference, TrainEstimator(inference)),
                                         num_samples, x_obs_2, TrainGen(inference, gen)))
            EXCEPT !.trained = @ + 1])
    /\ steps' = steps \o <<"train", "build_posterior", "posterior.sample">>
    /\ pc' = "pairplot_2"
    /\ UNCHANGED <<seed, setupVars, error, theta, x, obsVars,
                   posterior_samples_1, plots, calls>>

\* (mutant: cell 6 passes the first observation again, x=x_obs_1)
PosteriorSample2_wrong_obs ==
    /\ pc = "sample_2"
    /\ posterior_samples_2' = PosteriorSample(posterior, num_samples, x_obs_1, gen)
    /\ gen' = PosteriorSampleGen(num_samples, x_obs_1, gen)
    /\ sample_log' = Append(sample_log,
           SampleRecord(posterior, num_samples, x_obs_1,
                        PosteriorSample(posterior, num_samples, x_obs_1, gen)))
    /\ steps' = Append(steps, "posterior.sample")
    /\ pc' = "pairplot_2"
    /\ UNCHANGED <<seed, setupVars, error, trainVars, obsVars,
                   posterior_samples_1, plots, calls>>

PosteriorSample2 ==
    /\ pc = "sample_2"
    /\ posterior_samples_2' = PosteriorSample(posterior, num_samples, x_obs_2, gen)
    /\ gen' = PosteriorSampleGen(num_samples, x_obs_2, gen)
    /\ sample_log' = Append(sample_log,
           SampleRecord(posterior, num_samples, x_obs_2,
                        PosteriorSample(posterior, num_samples, x_obs_2, gen)))
    /\ steps' = Append(steps, "posterior.sample")
    /\ pc' = "pairplot_2"
    /\ UNCHANGED <<seed, setupVars, error, trainVars, obsVars,
                   posterior_samples_1, plots, calls>>

\* _ = analysis.pairplot(posterior_samples_2, ..., points=theta_2)
Pairplot2 ==
    /\ pc = "pairplot_2"
    /\ plots' = Append(plots, [samples |-> posterior_samples_2, points |-> theta_2])
    /\ steps' = Append(steps, "pairplot")
    /\ pc' = "done"
    /\ UNCHANGED <<gen, seed, setupVars, error, trainVars, obsVars,
                   posterior_samples_1, posterior_samples_2, calls, sample_log>>

Next ==
    \/ DefinePrior
    \/ DefineSimulator
    \/ ProcessPrior
    \/ ProcessSimulator
    \/ CheckSbiInputs
    \/ CreateInference
    \/ SimulateForSbi
    \/ AppendSimulations
    \/ Train
    \/ BuildPosteriorStep
    \/ SampleTheta1
    \/ SimulateObs1
    \/ SampleTheta2
    \/ SimulateObs2
    \/ PosteriorSample1
    \/ Pairplot1
    \/ PosteriorSample2
    \/ Pairplot2

Spec == Init /\ [][Next]_vars

\* The kernel runs the statements one after the other without waiting: a
\* statement that can run does run.
FairSpec == Init /\ [][Next]_vars /\ WF_vars(Next)

----------------------------------------------------------------------------
(* The simulator on its own: any batch of parameter vectors, any generator *)
(* state, called repeatedly, with the generator reseeded in between        *)
(* (torch.manual_seed).                                                    *)

\* The corners of the prior box, an inner point and a point outside it.
SimCorners == {<<a, b, c>> : a \in {PriorLow, PriorHigh}, b \in {PriorLow, PriorHigh},
                             c \in {PriorLow, PriorHigh}}

SimRows == SimCorners \cup {<<-7, 0, 13>>, <<PriorLow - 10, 5, PriorHigh + 15>>}

SimBatches == UNION {[1..n -> SimRows] : n \in 1..MaxBatch}

SimInit ==
    /\ pc = "sim"
    /\ gen \in 0..MaxSeed
    /\ seed = gen
    /\ theta_1 \in SimBatches
    /\ prior = BoxUniform
    /\ sim_binding = "raw"
    /\ num_parameters = 0
    /\ prior_returns_numpy = FALSE
    /\ error = "none"
    /\ inference = NoInference
    /\ theta = <<>>
    /\ x = <<>>
    /\ density_estimator = NoEstimator
    /\ posterior = NoPosterior
    /\ x_obs_1 = <<>>
    /\ theta_2 = <<>>
    /\ x_obs_2 = <<>>
    /\ posterior_samples_1 = <<>>
    /\ posterior_samples_2 = <<>>
    /\ plots = <<>>
    /\ calls = <<>>
    /\ sample_log = <<>>
    /\ steps = <<>>

\* x_obs_1 = simulator(theta_1)
SimApply ==
    /\ pc = "sim"
    /\ Len(calls) < MaxCalls
    /\ LET c == SimCall(theta_1, gen) IN
         /\ x_obs_1' = c.x
         /\ gen' = c.gen
         /\ calls' = Append(calls, c.rec)
    /\ steps' = Append(steps, "simulator")
    /\ UNCHANGED <<pc, seed, setupVars, error, trainVars, theta_1, theta_2, x_obs_2,
                   resultVars, sample_log>>

\* torch.manual_seed(seed)
SimReseed ==
    /\ pc = "sim"
    /\ gen # seed
    /\ gen' = seed
    /\ UNCHANGED <<pc, seed, setupVars, error, trainVars, obsVars,
                   resultVars, calls, sample_log, steps>>

SimNext == SimApply \/ SimReseed

SimSpec == SimInit /\ [][SimNext]_vars

----------------------------------------------------------------------------
(* The claims.                                                             *)

TrainingSteps == {"simulate_for_sbi", "append_simulations", "train", "build_posterior"}

\* C1: amortization.  Training-set generation, append_simulations, training
\* and build_posterior never happen more than once, none of them happens at
\* or after a posterior.sample call, every posterior.sample call finds them
\* done exactly once and is served by the one posterior object that
\* build_posterior returned, and a complete run has made both sample calls
\* (for x_obs_1, then for x_obs_2) on it.
C1_Amortized ==
    /\ \A name \in TrainingSteps : Count(name) <= 1
    /\ \A i \in 1..Len(steps) : \A j \in 1..Len(steps) :
         (steps[i] \in TrainingSteps /\ steps[j] = "posterior.sample") => i < j
    /\ Len(sample_log) = Count("posterior.sample")
    /\ \A k \in 1..Len(sample_log) :
         /\ sample_log[k].trained = 1
         /\ sample_log[k].simulated = 1
         /\ sample_log[k].posterior = BuildPosterior(inference, density_estimator)
         /\ sample_log[k].posterior = sample_log[1].posterior
         /\ \A name \in TrainingSteps : Count(name) = 1
    /\ pc = "done" =>
         /\ Len(sample_log) = 2
         /\ sample_log[1].x = x_obs_1
         /\ sample_log[2].x = x_obs_2
         /\ \A name \in TrainingSteps : Count(name) = 1

C1_Witness ==
    /\ pc = "done"
    /\ Len(sample_log) = 2
    /\ sample_log[1].x # sample_log[2].x
    /\ sample_log[1].posterior = sample_log[2].posterior
    /\ Count("train") = 1

\* C2: every simulator call returns a batch of the shape of its argument:
\* as many rows as theta has, and in every row as many coordinates as the
\* row of theta (3 here).
C2_SameShape ==
    \A k \in 1..Len(calls) :
        /\ Len(calls[k].x) = Len(calls[k].theta)
        /\ \A r \in 1..Len(calls[k].theta) :
             /\ Len(calls[k].x[r]) = Len(calls[k].theta[r])
             /\ Len(calls[k].x[r]) = 3
        /\ x_obs_1 = calls[Len(calls)].x

C2_Witness ==
    \E k \in 1..Len(calls) :
        /\ Len(calls[k].theta) = 2
        /\ Len(calls[k].x) = 2
        /\ calls[k].theta[1] # calls[k].theta[2]

\* C3: in every simulator call, every coordinate of the output is the same
\* coordinate of theta plus 1.0 plus 0.1 times the noise drawn for that
\* coordinate (in tenths: 10 * (x - theta - 10) = n), whatever the other
\* coordinates of theta are.
C3_Linear ==
    \A k \in 1..Len(calls) :
        \A r \in 1..Len(calls[k].theta) :
            \A i \in 1..Len(calls[k].theta[r]) :
                10 * (calls[k].x[r][i] - calls[k].theta[r][i] - 10) = calls[k].noise[r][i]

C3_Witness ==
    \E k \in 1..Len(calls) :
        /\ calls[k].noise[1][1] # 0
        /\ calls[k].noise[1][1] # calls[k].noise[1][2]
        /\ calls[k].theta[1][1] # calls[k].theta[1][2]
        /\ calls[k].x[1][1] = calls[k].theta[1][1] + 10 + calls[k].noise[1][1] \div 10

\* C4: for theta in the box [-2, 2]^3 and noise of magnitude at most
\* b = NoiseMax tenths after the scaling, every coordinate of the output is
\* within b of theta + 1 and lies in [-1 - b, 3 + b].
C4_Bounded ==
    \A k \in 1..Len(calls) :
        \A r \in 1..Len(calls[k].theta) :
            (\A i \in 1..Len(calls[k].theta[r]) : calls[k].theta[r][i] \in (-20)..20)
            => \A i \in 1..Len(calls[k].theta[r]) :
                 /\ Abs(calls[k].x[r][i] - (calls[k].theta[r][i] + 10)) <= NoiseMax
                 /\ calls[k].x[r][i] >= -10 - NoiseMax
                 /\ calls[k].x[r][i] <= 30 + NoiseMax

C4_Witness ==
    \E k \in 1..Len(calls) :
        \E i \in 1..3 : \E j \in 1..3 :
            /\ calls[k].theta[1][i] = 20
            /\ calls[k].x[1][i] = 30 + NoiseMax
            /\ calls[k].theta[1][j] = -20
            /\ calls[k].x[1][j] < -10

\* C5: prior sampling returns the requested number of vectors (the training
\* parameters: num_simulations; theta_1 and theta_2: one each), every vector
\* has 3 coordinates and every coordinate lies in [-2, 2].
C5_PriorSamples ==
    /\ Count("simulate_for_sbi") = 1 => Len(theta) = num_simulations
    /\ pc \in {"x_obs_1", "theta_2", "x_obs_2", "sample_1", "pairplot_1", "sample_2",
               "pairplot_2", "done"} => Len(theta_1) = 1
    /\ pc \in {"x_obs_2", "sample_1", "pairplot_1", "sample_2", "pairplot_2", "done"}
         => Len(theta_2) = 1
    /\ \A t \in {theta, theta_1, theta_2} :
         \A r \in 1..Len(t) :
             /\ Len(t[r]) = 3
             /\ \A i \in 1..3 : t[r][i] >= -20 /\ t[r][i] <= 20

C5_Witness ==
    /\ pc = "done"
    /\ Len(theta) = num_simulations
    /\ Len(theta_1) = 1
    /\ Len(theta_2) = 1
    /\ theta_1 # theta_2
    /\ \E r \in 1..Len(theta) : \E i \in 1..3 : theta[r][i] = -20

C7_HaltOnFailedCheck ==
    /\ pc = "halted" <=> error # "none"
    /\ error # "none" =>
         /\ steps[Len(steps)] = "check_sbi_inputs"
         /\ \A name \in TrainingSteps \cup {"NPE", "posterior.sample", "pairplot"} :
              Count(name) = 0
         /\ Len(calls) = 1
         /\ theta = <<>> /\ x = <<>>
         /\ inference = NoInference
         /\ density_estimator = NoEstimator
         /\ posterior = NoPosterior
         /\ sample_log = <<>>
         /\ posterior_samples_1 = <<>> /\ posterior_samples_2 = <<>>
         /\ ~ENABLED Next

C7_Witness ==
    /\ pc = "halted"
    /\ error = "AssertionError"
    /\ Count("check_sbi_inputs") = 1

\* C8: a posterior.sample call changes neither the posterior object nor the
\* fitted estimator nor what the posterior answers for x_obs_1 or x_obs_2,
\* so the answer for x_obs_2 after the query for x_obs_1 is the answer
\* before it; every query made so far was answered by the posterior as it
\* is now, with draws out of the answer it gives now for that observation.
C8_Stateless ==
    /\ [](\A k \in 1..Len(sample_log) :
            /\ sample_log[k].posterior = posterior
            /\ posterior.estimator = density_estimator
            /\ \A n \in 1..Len(sample_log[k].samples) : \A i \in 1..3 :
                 sample_log[k].samples[n][i]
                     \in PosteriorSupport(posterior, sample_log[k].x)[i])
    /\ [][(pc = "sample_1" \/ pc = "sample_2") =>
            (/\ posterior' = posterior
             /\ density_estimator' = density_estimator
             /\ PosteriorSupport(posterior', x_obs_1) = PosteriorSupport(posterior, x_obs_1)
             /\ PosteriorSupport(posterior', x_obs_2) = PosteriorSupport(posterior, x_obs_2)
            )]_vars

C8_Witness ==
    /\ pc = "done"
    /\ Len(sample_log) = 2
    /\ sample_log[1].x = x_obs_1
    /\ sample_log[2].x = x_obs_2
    /\ sample_log[2].posterior = sample_log[1].posterior
    /\ PosteriorSupport(posterior, x_obs_1) # PosteriorSupport(posterior, x_obs_2)

\* C9: once append_simulations has stored the training set, no step changes
\* it: the pairs the inference object holds are the pairs theta, x that
\* simulate_for_sbi returned, the estimator is fitted to them, and they are
\* consumed by at most one train call, exactly one in a complete run.
C9_TrainingSetImmutable ==
    /\ [](Count("append_simulations") >= 1 =>
            /\ inference.theta = theta
            /\ inference.x = x
            /\ inference.rounds = 1
            /\ inference.trained = Count("train")
            /\ Count("train") <= 1
            /\ density_estimator.fitted =>
                 (density_estimator.theta = theta /\ density_estimator.x = x)
            /\ pc = "done" => Count("train") = 1)
    /\ [][Count("append_simulations") >= 1 =>
            (/\ theta' = theta
             /\ x' = x
             /\ inference'.theta = inference.theta
             /\ inference'.x = inference.x
            )]_vars

C9_Witness ==
    /\ pc = "done"
    /\ Count("append_simulations") = 1
    /\ Len(inference.theta) = num_simulations
    /\ inference.theta = theta
    /\ inference.x = x
    /\ inference.trained = 1
    /\ Len(plots) = 2

\* The library operations of a complete run, in the order of the cells.
NotebookOrder ==
    <<"process_prior", "process_simulator", "check_sbi_inputs", "NPE",
      "simulate_for_sbi", "append_simulations", "train", "build_posterior",
      "prior.sample", "simulator", "prior.sample", "simulator",
      "posterior.sample", "pairplot", "posterior.sample", "pairplot">>

\* The position of the first execution of `name` in steps (0: not executed).
FirstAt(name) ==
    IF Count(name) = 0 THEN 0
    ELSE CHOOSE k \in 1..Len(steps) :
             steps[k] = name /\ \A j \in 1..(k - 1) : steps[j] # name

\* C11: the operations are executed in the fixed order of the cells: what
\* has been executed is always an initial part of that order, the prior and
\* the simulator are defined before validation starts, validation
\* (process_prior, process_simulator, check_sbi_inputs) precedes the first
\* training simulation, train precedes build_posterior, and build_posterior
\* has returned a posterior before any posterior.sample call.
C11_FixedOrder ==
    /\ Len(steps) <= Len(NotebookOrder)
    /\ steps = SubSeq(NotebookOrder, 1, Len(steps))
    /\ Len(steps) >= 1 => (prior # NoPrior /\ sim_binding # "unbound")
    /\ Count("simulate_for_sbi") >= 1 =>
         /\ FirstAt("process_prior") >= 1
         /\ FirstAt("process_prior") < FirstAt("process_simulator")
         /\ FirstAt("process_simulator") < FirstAt("check_sbi_inputs")
         /\ FirstAt("check_sbi_inputs") < FirstAt("simulate_for_sbi")
    /\ Count("append_simulations") >= 1 =>
         FirstAt("simulate_for_sbi") < FirstAt("append_simulations")
    /\ Count("train") >= 1 => FirstAt("append_simulations") < FirstAt("train")
    /\ Count("build_posterior") >= 1 =>
         (FirstAt("train") >= 1 /\ FirstAt("train") < FirstAt("build_posterior"))
    /\ Count("posterior.sample") >= 1 =>
         /\ FirstAt("build_posterior") >= 1
         /\ FirstAt("build_posterior") < FirstAt("posterior.sample")
         /\ posterior.built
    /\ \A k \in 1..Len(sample_log) : sample_log[k].posterior.built
    /\ Len(sample_log) = 2 => (sample_log[1].x = x_obs_1 /\ sample_log[2].x = x_obs_2)

C11_Witness ==
    /\ pc = "done"
    /\ steps = NotebookOrder
    /\ posterior.built
    /\ Len(sample_log) = 2

\* The simulator call that produced row r of the training set: the calls of
\* simulate_for_sbi follow the one call check_sbi_inputs made.
TrainingCall(r) == calls[1 + r]

\* C12: the training set holds exactly num_simulations rows of theta and of
\* x, index-aligned: row r of theta lies in the box [-2, 2]^3 and row r of x
\* is the output of the simulator call on that row of theta (x - theta - 1.0
\* is 0.1 times the noise of that call), not of another row.
C12_TrainingSetAligned ==
    Count("simulate_for_sbi") >= 1 =>
        /\ Len(theta) = num_simulations
        /\ Len(x) = num_simulations
        /\ \A r \in 1..num_simulations :
             /\ Len(theta[r]) = 3
             /\ Len(x[r]) = 3
             /\ \A i \in 1..3 : theta[r][i] >= -20 /\ theta[r][i] <= 20
             /\ TrainingCall(r).theta = <<theta[r]>>
             /\ TrainingCall(r).x = <<x[r]>>
             /\ \A i \in 1..3 :
                  10 * (x[r][i] - theta[r][i] - 10) = TrainingCall(r).noise[1][i]

C12_Witness ==
    /\ pc = "done"
    /\ Len(theta) = num_simulations
    /\ theta[1] # theta[2]
    /\ TrainingCall(1).noise # TrainingCall(2).noise
    /\ TrainingCall(2).x = <<x[2]>>
    /\ x[2] # x[1]

\* The observation the k-th posterior.sample call of the notebook is made for.
ObsOf(k) == IF k = 1 THEN x_obs_1 ELSE x_obs_2

\* The binding the k-th posterior.sample call assigns.
SamplesOf(k) == IF k = 1 THEN posterior_samples_1 ELSE posterior_samples_2

\* C13: each posterior.sample call returns exactly the requested number of
\* draws, each a vector of 3 coordinates, and its draws are those of the
\* posterior conditioned on the one observation passed in that call: x_obs_1
\* for posterior_samples_1, x_obs_2 for posterior_samples_2.
C13_SamplesPerObservation ==
    /\ Len(sample_log) <= 2
    /\ \A k \in 1..Len(sample_log) :
         /\ sample_log[k].n = num_samples
         /\ Len(sample_log[k].samples) = num_samples
         /\ \A n \in 1..num_samples : Len(sample_log[k].samples[n]) = 3
         /\ Len(sample_log[k].x) = 1
         /\ sample_log[k].x = ObsOf(k)
         /\ SamplesOf(k) = sample_log[k].samples
         /\ SamplesOf(k) =
                PosteriorSample(posterior, num_samples, ObsOf(k), sample_log[k].gen)
         /\ \A n \in 1..num_samples : \A i \in 1..3 :
                SamplesOf(k)[n][i] \in PosteriorSupport(posterior, ObsOf(k))[i]

C13_Witness ==
    /\ pc = "done"
    /\ Len(posterior_samples_1) = num_samples
    /\ Len(posterior_samples_2) = num_samples
    /\ x_obs_1 # x_obs_2
    /\ posterior_samples_1 # posterior_samples_2
    /\ \E i \in 1..3 : posterior_samples_2[1][i]
                         \notin PosteriorSupport(posterior, x_obs_1)[i]

\* C14: once the consistency check has passed, the run reaches its final
\* state; there every operation has been executed exactly as often as the
\* cells name it and in their order (one simulate_for_sbi of
\* num_simulations pairs, one train, one build_posterior, two sample calls,
\* two plots), nothing is left to run, and every step runs exactly the one
\* statement pc points at.
C14_Terminates ==
    /\ (pc = "NPE") ~> (pc = "done")
    /\ [](pc = "done" =>
            /\ steps = NotebookOrder
            /\ Len(theta) = num_simulations /\ Len(x) = num_simulations
            /\ Count("simulate_for_sbi") = 1
            /\ Count("train") = 1
            /\ Count("build_posterior") = 1
            /\ Count("posterior.sample") = 2
            /\ Count("pairplot") = 2
            /\ Len(plots) = 2
            /\ error = "none"
            /\ ~ENABLED Next)
    /\ [][pc' # pc /\ Len(steps') <= Len(steps) + 1]_vars

C14_Witness ==
    /\ pc = "done"
    /\ error = "none"
    /\ steps = NotebookOrder
    /\ Len(plots) = 2

\* The simulator call that produced the k-th observation: the two calls of
\* cell 4 follow the call of check_sbi_inputs and those of simulate_for_sbi.
ObsCall(k) == calls[1 + num_simulations + k]

\* C15: a simulator call leaves its argument as it was: the step that
\* computes x_obs_1 (x_obs_2) changes neither theta_1 nor theta_2 nor any
\* other binding, only the result it assigns and the random generator; so
\* theta_1 (theta_2) is still the argument of the call that returned
\* x_obs_1 (x_obs_2), and it is what the plot receives as points.
C15_ArgumentUnchanged ==
    /\ [](/\ x_obs_1 # <<>> => (ObsCall(1).theta = theta_1 /\ ObsCall(1).x = x_obs_1)
          /\ x_obs_2 # <<>> => (ObsCall(2).theta = theta_2 /\ ObsCall(2).x = x_obs_2)
          /\ Len(plots) >= 1 =>
               (plots[1].points = ObsCall(1).theta /\ plots[1].points = theta_1)
          /\ Len(plots) >= 2 =>
               (plots[2].points = ObsCall(2).theta /\ plots[2].points = theta_2))
    /\ [][(pc = "x_obs_1" \/ pc = "x_obs_2") =>
            (/\ theta_1' = theta_1
             /\ theta_2' = theta_2
             /\ pc = "x_obs_1" => x_obs_2' = x_obs_2
             /\ pc = "x_obs_2" => x_obs_1' = x_obs_1
             /\ gen' = GenSkip(gen, 3)
             /\ gen' # gen
             /\ UNCHANGED <<seed, setupVars, error, trainVars, resultVars, sample_log>>
            )]_vars

C15_Witness ==
    /\ pc = "done"
    /\ plots[1].points = theta_1
    /\ plots[2].points = theta_2
    /\ ObsCall(1).theta = theta_1
    /\ ObsCall(1).x = x_obs_1
    /\ x_obs_1 # theta_1
    /\ ObsCall(2).theta = theta_2
    /\ ObsCall(1).gen # ObsCall(1).gen_after

\* The generator states the k-th simulator call draws its noise from.
StatesRead(k) ==
    {GenSkip(calls[k].gen, m) : m \in 0..(numel(calls[k].theta) - 1)}

\* C16: no statement reseeds the generator, and every simulator call
\* advances it by one state per element of theta, so a call never leaves the
\* generator where it found it, a later call starts at or after the state
\* the earlier one left, and the noise of any two calls of the run (the
\* call of the check, the training simulations, x_obs_1, x_obs_2) is drawn
\* from different generator states.
C16_GeneratorAdvances ==
    /\ \A k \in 1..Len(calls) :
         /\ calls[k].gen_after = GenSkip(calls[k].gen, numel(calls[k].theta))
         /\ calls[k].gen_after # calls[k].gen
         /\ calls[k].gen_after \notin StatesRead(k)
         /\ calls[k].noise = randn_like(calls[k].theta, calls[k].gen)
    /\ \A j \in 1..Len(calls) : \A k \in 1..Len(calls) :
         j < k =>
            /\ calls[j].gen # calls[k].gen
            /\ StatesRead(j) \cap StatesRead(k) = {}
            /\ \E m \in 0..255 : calls[k].gen = GenSkip(calls[j].gen_after, m)
                                 /\ StatesRead(j) \cap
                                      {GenSkip(calls[j].gen_after, n) : n \in 0..m} = {}
    /\ Len(calls) >= 1 => gen \notin UNION {StatesRead(k) : k \in 1..Len(calls)}

C16_Witness ==
    /\ pc = "done"
    /\ Len(calls) = num_simulations + 3
    /\ ObsCall(1).noise # ObsCall(2).noise
    /\ ObsCall(2).gen # ObsCall(1).gen_after
    /\ \E j \in 1..Len(calls) : \E k \in 1..Len(calls) :
         /\ j < k
         /\ calls[j].theta = calls[k].theta
         /\ calls[j].x # calls[k].x

\* C17: after validation no step rebinds prior or simulator: the prior that
\* process_prior returned and the simulator that process_simulator returned
\* and check_sbi_inputs validated are the ones simulate_for_sbi, NPE and
\* cell 4 use, so the training parameters and theta_1, theta_2 come from the
\* same box and the training simulations and x_obs_1, x_obs_2 follow the
\* same forward model x = theta + 1.0 + 0.1 * noise.
C17_SameBindings ==
    /\ [](Count("check_sbi_inputs") >= 1 =>
            /\ prior = BoxUniform
            /\ sim_binding = "wrapped"
            /\ inference.created => inference.prior = prior
            /\ posterior.built => posterior.prior = prior
            /\ \A k \in 1..Len(calls) :
                 \A r \in 1..Len(calls[k].theta) : \A i \in 1..3 :
                     /\ calls[k].theta[r][i] >= prior.low[i]
                     /\ calls[k].theta[r][i] <= prior.high[i]
                     /\ 10 * (calls[k].x[r][i] - calls[k].theta[r][i] - 10)
                          = calls[k].noise[r][i]
            /\ x_obs_1 # <<>> => ObsCall(1).x = x_obs_1
            /\ x_obs_2 # <<>> => ObsCall(2).x = x_obs_2
            /\ \A r \in 1..Len(x) : TrainingCall(r).x = <<x[r]>>)
    /\ [][(/\ Count("process_prior") >= 1 => prior' = prior
           /\ Count("process_simulator") >= 1 => sim_binding' = sim_binding
           /\ Count("process_prior") >= 1 =>
                (num_parameters' = num_parameters
                 /\ prior_returns_numpy' = prior_returns_numpy)
          )]_vars

C17_Witness ==
    /\ pc = "done"
    /\ prior = BoxUniform
    /\ sim_binding = "wrapped"
    /\ posterior.prior = prior
    /\ Len(calls) = num_simulations + 3
    /\ ObsCall(2).x = x_obs_2
    /\ TrainingCall(1).x = <<x[1]>>

====
